---- MODULE Spec2Model ----
(***************************************************************************)
(* Model of src/app.py: the "Conversational Insight Generator" service.    *)
(*                                                                         *)
(* State: the process-wide handles (db_pool, genai_client_aio), the        *)
(* call_records table of the store, the position of the lifespan context   *)
(* manager, and one record per HTTP request to POST /analyze_call.         *)
(* Every await of the code is the end of one action, so that concurrent    *)
(* requests interleave exactly at the code's suspension points.            *)
(***************************************************************************)
EXTENDS Integers, Sequences, FiniteSets, TLC

(***************************************************************************)
(* Bounds of the model.                                                    *)
(***************************************************************************)
\* longest payload.transcript, in characters
MaxLen == 2

\* the concurrent requests of one process lifetime
Reqs == {"r1", "r2"}

\* characters of a transcript: one whitespace character, one other
Chars == {" ", "a"}

(***************************************************************************)
(* Values.                                                                 *)
(***************************************************************************)
\* Python's None, where a record is expected
Null == [null |-> TRUE]

\* "no exception"
NoError == "none"

\* the detail of an HTTP error: a fixed message, and the exception put into it
Detail(msg, err) == [msg |-> msg, err |-> err]

NoDetail == Detail("", NoError)

\* what the server answers for an exception that is not an HTTPException
InternalServerError == Detail("Internal Server Error", NoError)

RECURSIVE SeqsUpTo(_)
SeqsUpTo(n) ==
    IF n = 0 THEN {<<>>}
    ELSE LET shorter == SeqsUpTo(n - 1)
         IN  shorter \cup {Append(s, c) : s \in {x \in shorter : Len(x) = n - 1}, c \in Chars}

\* the request bodies the framework hands to the handler (TranscriptInput)
TranscriptInput == SeqsUpTo(MaxLen)

\* str.strip(): drop leading, then trailing, whitespace
RECURSIVE LStrip(_)
LStrip(s) == IF s # <<>> /\ Head(s) = " " THEN LStrip(Tail(s)) ELSE s

RECURSIVE RStrip(_)
RStrip(s) ==
    IF s # <<>> /\ s[Len(s)] = " " THEN RStrip(SubSeq(s, 1, Len(s) - 1)) ELSE s

Strip(s) == RStrip(LStrip(s))

\* a test `transcript is None` in the place of `not transcript`
FalsyOnlyNone(s) == FALSE

\* truth value of a str, as in `not transcript`: only the empty str is falsy
Falsy(s) == s = <<>>

(***************************************************************************)
(* CallInsight and the outputs of the LLM provider.                        *)
(***************************************************************************)
\* Literal["negative", "neutral", "positive"]
Sentiments == {"negative", "neutral", "positive"}

CallInsightFields ==
    {"primary_purpose", "objective_met", "key_outcome", "customer_intent",
     "non_payment_reason", "sentiment_start", "sentiment_end", "hardship_flag",
     "agent_performance_rating", "action_required", "summary"}

\* the fields of CallInsight that have no default value
RequiredFields == CallInsightFields \ {"non_payment_reason"}

MkInsight(ss, se, rating, summary) ==
    [primary_purpose          |-> "payment reminder",
     objective_met            |-> TRUE,
     key_outcome              |-> "promised payment",
     customer_intent          |-> "agreeing to pay later",
     non_payment_reason       |-> "salary delay",
     sentiment_start          |-> ss,
     sentiment_end            |-> se,
     hardship_flag            |-> FALSE,
     agent_performance_rating |-> rating,
     action_required          |-> TRUE,
     summary                  |-> summary]

\* a JSON object without the keys in `keys`
Without(obj, keys) == [f \in (DOMAIN obj) \ keys |-> obj[f]]

\* response.parsed when the SDK built a CallInsight itself: the SDK validated
\* it against the class, whose rating field is a plain int
TypedParsed == {MkInsight("neutral", "positive", 3, "s1")}

\* a plain JSON object that has the shape of a CallInsight
RawValid ==
    {Without(MkInsight("negative", "negative", 6, "s2"), {"non_payment_reason"})}

\* response.parsed when the SDK hands back a plain JSON object
RawParsed ==
    RawValid
        \cup {MkInsight("angry", "positive", 3, "s1"),
              MkInsight("neutral", "calm", 3, "s1"),
              Without(MkInsight("neutral", "positive", 3, "s1"), {"summary"})}

\* what one call of generate_content can do
LLMResults ==
    {[kind |-> "error", err |-> "network error"]}
        \cup {[kind |-> "typed", parsed |-> p] : p \in TypedParsed}
        \cup {[kind |-> "raw", parsed |-> p] : p \in RawParsed}
        \cup {[kind |-> "none"]}

\* CallInsight.model_validate accepts the object
ValidatesAsCallInsight(obj) ==
    /\ RequiredFields \subseteq DOMAIN obj
    /\ obj.sentiment_start \in Sentiments
    /\ obj.sentiment_end \in Sentiments
    /\ obj.agent_performance_rating \in Int

\* CallInsight.model_validate: an absent optional field takes its default
ModelValidate(obj) ==
    [f \in CallInsightFields |->
        IF f \in DOMAIN obj THEN obj[f] ELSE "None"]

\* a plain object taken as it comes
AttemptSucceedsUnchecked(res) == res.kind \in {"typed", "raw"}

\* lines 142-144: the attempt returns a CallInsight
AttemptSucceeds(res) ==
    \/ res.kind = "typed"
    \/ res.kind = "raw" /\ ValidatesAsCallInsight(res.parsed)

\* lines 142-144: the value the attempt returns
AttemptValue(res) ==
    IF res.kind = "typed" THEN res.parsed ELSE ModelValidate(res.parsed)

\* lines 145-147: the exception the attempt is left with
AttemptError(res) ==
    IF res.kind = "error" THEN res.err ELSE "ValidationError"

\* line 128
retries == 2

\* range(retries + 2): one turn too many
AttemptsOneMore == retries + 2

\* line 131: range(retries + 1)
Attempts == retries + 1

\* last_error = last_error or exc: the first error is kept
LastErrorKeepsFirst(prev, exc) == IF prev = NoError THEN exc ELSE prev

\* line 147: last_error = exc
LastError(prev, exc) == exc

(***************************************************************************)
(* The store: table call_records.                                          *)
(***************************************************************************)
\* the column list of the INSERT, in the order of lines 176-187
InsertColumns ==
    <<"transcript", "primary_purpose", "objective_met", "key_outcome",
      "customer_intent", "non_payment_reason", "sentiment_start",
      "sentiment_end", "hardship_flag", "agent_performance_rating",
      "action_required", "summary">>

\* the two sentiments in each other's place
InsertArgsSwapped(transcript, insights) ==
    <<transcript, insights.primary_purpose, insights.objective_met,
      insights.key_outcome, insights.customer_intent,
      insights.non_payment_reason, insights.sentiment_end,
      insights.sentiment_start, insights.hardship_flag,
      insights.agent_performance_rating, insights.action_required,
      insights.summary>>

\* the arguments $1..$12 of the INSERT, in the order of lines 192-203
InsertArgs(transcript, insights) ==
    <<transcript, insights.primary_purpose, insights.objective_met,
      insights.key_outcome, insights.customer_intent,
      insights.non_payment_reason, insights.sentiment_start,
      insights.sentiment_end, insights.hardship_flag,
      insights.agent_performance_rating, insights.action_required,
      insights.summary>>

\* the row the INSERT creates: column i takes argument $i, id is the SERIAL
InsertedRow(id, transcript, insights) ==
    [c \in {"id"} \cup {InsertColumns[i] : i \in 1..Len(InsertColumns)} |->
        IF c = "id" THEN id
        ELSE LET i == CHOOSE j \in 1..Len(InsertColumns) : InsertColumns[j] = c
             IN  InsertArgs(transcript, insights)[i]]

\* an upsert: the new row takes the place of the latest one
InsertIntoReplacing(table, row) ==
    IF table = <<>> THEN <<row>> ELSE [table EXCEPT ![Len(table)] = row]

\* INSERT INTO call_records: one more row, the others untouched
InsertInto(table, row) == Append(table, row)

\* a response that rebuilds the insight and leaves the summary out
AnalyzeCallResponseNoSummary(record_id, insights) ==
    [record_id |-> record_id, insights |-> [insights EXCEPT !.summary = ""]]

\* line 207
AnalyzeCallResponse(record_id, insights) ==
    [record_id |-> record_id, insights |-> insights]

\* a table left by an earlier run of the service
OldRows == <<InsertedRow(1, <<"a">>, MkInsight("neutral", "neutral", 3, "s0"))>>

(***************************************************************************)
(* State.                                                                  *)
(***************************************************************************)
VARIABLES
    lifespanOn,    \* the server runs the lifespan protocol of the app
    phase,         \* position of lifespan()
    db_pool,       \* the global db_pool: "None" or "pool"
    poolOpen,      \* the asyncpg pool exists and is not closed
    llmOpen,       \* genai_client_aio is not closed
    tableExists,   \* the store has a table call_records
    schemaRuns,    \* executions of CREATE TABLE IF NOT EXISTS
    rows,          \* the rows of call_records, in insertion order
    nextId,        \* next value of the SERIAL sequence of call_records.id
    rows0,         \* history: the rows at the start of the process
    sdDone,        \* shutdown steps completed
    shutdownLog,   \* the releases attempted by lifespan(), in order
    health,        \* the latest response of GET /
    req            \* the requests to POST /analyze_call

vars == <<lifespanOn, phase, db_pool, poolOpen, llmOpen, tableExists,
          schemaRuns, rows, nextId, rows0, sdDone, shutdownLog, health, req>>

lifeVars == <<lifespanOn, phase, db_pool, poolOpen, llmOpen, schemaRuns,
              sdDone, shutdownLog>>

storeVars == <<tableExists, rows, nextId, rows0>>

NewRequest ==
    [pc         |-> "new",
     payload    |-> <<>>,
     transcript |-> <<>>,
     attempt    |-> 0,
     last_error |-> NoError,
     insights   |-> Null,
     record_id  |-> 0,
     exc        |-> FALSE,
     conn       |-> FALSE,     \* it holds a connection of the pool
     status     |-> 0,
     detail     |-> NoDetail,
     response   |-> Null,
     calls      |-> 0,         \* history: calls of generate_content
     sent       |-> <<>>,      \* history: `contents` of the latest call
     lastExc    |-> NoError,   \* history: exception of the latest call
     llmValue   |-> Null,      \* history: value of the latest successful call
     via        |-> "none",    \* history: branch of line 144 that returned it
     acquires   |-> 0,         \* history: calls of db_pool.acquire
     inserts    |-> 0,         \* history: INSERT statements sent
     rowIx      |-> 0,         \* history: position of the row it inserted
     failedAt   |-> "none"]    \* history: the store call that raised

Init ==
    /\ lifespanOn \in BOOLEAN
    /\ phase = "created"
    /\ db_pool = "None"
    /\ poolOpen = FALSE
    /\ llmOpen = TRUE
    /\ tableExists \in BOOLEAN
    /\ rows = IF tableExists THEN OldRows ELSE <<>>
    /\ rows0 = rows
    /\ nextId = Len(rows) + 1
    /\ schemaRuns = 0
    /\ sdDone = 0
    /\ shutdownLog = <<>>
    /\ health = Null
    /\ req = [r \in Reqs |-> NewRequest]

(***************************************************************************)
(* lifespan(): startup, lines 81-108.                                      *)
(***************************************************************************)
\* line 83: db_pool = await asyncpg.create_pool(DATABASE_URL)
CreatePool(ok) ==
    /\ lifespanOn
    /\ phase = "created"
    /\ IF ok
       THEN /\ db_pool' = "pool"
            /\ poolOpen' = TRUE
            /\ phase' = "pool_created"
       ELSE /\ phase' = "startup_failed"
            /\ UNCHANGED <<db_pool, poolOpen>>
    /\ UNCHANGED <<lifespanOn, llmOpen, schemaRuns, sdDone, shutdownLog, health, req>>
    /\ UNCHANGED storeVars

\* CREATE TABLE without IF NOT EXISTS: an error when the table is there
CreateTable(exists, table, seq) ==
    [error  |-> exists,
     exists |-> TRUE,
     rows   |-> IF exists THEN table ELSE <<>>,
     nextId |-> IF exists THEN seq ELSE 1]

\* lines 88-104: CREATE TABLE IF NOT EXISTS call_records; a table that is
\* there is left as it is, with its rows and its id sequence
CreateTableIfNotExists(exists, table, seq) ==
    [error  |-> FALSE,
     exists |-> TRUE,
     rows   |-> IF exists THEN table ELSE <<>>,
     nextId |-> IF exists THEN seq ELSE 1]

\* lines 85-108: CREATE TABLE IF NOT EXISTS on a pool connection, then yield;
\* an exception of the acquire or of the statement leaves lifespan()
EnsureSchema(ok) ==
    /\ phase = "pool_created"
    /\ LET done == CreateTableIfNotExists(tableExists, rows, nextId)
       IN  /\ ok => ~done.error
           /\ IF ok
              THEN /\ tableExists' = done.exists
                   /\ rows' = done.rows
                   /\ nextId' = done.nextId
                   /\ schemaRuns' = schemaRuns + 1
                   /\ phase' = "serving"
              ELSE /\ phase' = "startup_failed"
                   /\ UNCHANGED <<tableExists, rows, nextId, schemaRuns>>
    /\ UNCHANGED <<lifespanOn, db_pool, poolOpen, llmOpen, sdDone, shutdownLog,
                   rows0, health, req>>

\* line 106 has been passed: the table creation has completed
SchemaReady == phase \in {"serving", "shutdown", "stopped", "shutdown_failed"}

\* handlers called as soon as the process exists
ServingDuringStartup ==
    IF lifespanOn THEN phase \in {"created", "pool_created", "serving"}
    ELSE phase = "created"

\* lines 108, 118-121: the server calls the handlers once startup has
\* completed (the yield), or at once when it does not run the lifespan
Serving == IF lifespanOn THEN phase = "serving" ELSE phase = "created"

(***************************************************************************)
(* lifespan(): shutdown, lines 110-116.                                    *)
(***************************************************************************)
\* the LLM client first
ShutdownOrderLLMFirst == <<"genai_client_aio", "db_pool">>

\* the order of the two releases: lines 111-112, then lines 114-115
ShutdownOrder == <<"db_pool", "genai_client_aio">>

\* a request is between its first and its last step
InFlight(r) == req[r].pc \notin {"new", "done"}

\* db_pool = None after the close
HandleClearedByClose(handle) == "None"

\* lines 111-112: the close is awaited and the global db_pool is not assigned
HandleAfterClose(handle) == handle

\* one of the two awaits of the shutdown: the release of ShutdownOrder[sdDone
\* + 1]; an exception of it leaves lifespan() at once.  The server resumes
\* lifespan() after the yield when no request is in flight any more.
ShutdownStep(ok) ==
    /\ phase \in {"serving", "shutdown"}
    /\ \A r \in Reqs : ~InFlight(r)
    /\ sdDone < Len(ShutdownOrder)
    /\ LET res == ShutdownOrder[sdDone + 1]
       IN  /\ shutdownLog' = Append(shutdownLog, res)
           /\ IF ok
              THEN /\ sdDone' = sdDone + 1
                   /\ phase' = IF sdDone + 1 = Len(ShutdownOrder)
                                THEN "stopped" ELSE "shutdown"
                   /\ poolOpen' = IF res = "db_pool" THEN FALSE ELSE poolOpen
                   /\ db_pool' = IF res = "db_pool" THEN HandleAfterClose(db_pool)
                                 ELSE db_pool
                   /\ llmOpen' = IF res = "genai_client_aio" THEN FALSE ELSE llmOpen
              ELSE /\ phase' = "shutdown_failed"
                   /\ UNCHANGED <<sdDone, poolOpen, db_pool, llmOpen>>
    /\ UNCHANGED <<lifespanOn, schemaRuns, health, req>>
    /\ UNCHANGED storeVars

(***************************************************************************)
(* POST /analyze_call: analyze_call() and generate_insights().             *)
(***************************************************************************)
\* the request ends with an HTTP error
Fail(q, status, detail) ==
    [q EXCEPT !.pc = "done", !.status = status, !.detail = detail]

\* the transcript trimmed and tested before the store handle
EntryTrimFirst(q, pool, payload) ==
    LET p == [q EXCEPT !.payload = payload]
        transcript == Strip(payload)
    IN  IF Falsy(transcript)
        THEN Fail(p, 422, Detail("Transcript cannot be empty.", NoError))
        ELSE IF pool = "None"
        THEN Fail([p EXCEPT !.transcript = transcript], 500,
                  Detail("Database pool not initialized.", NoError))
        ELSE [p EXCEPT !.transcript = transcript, !.pc = "llm"]

\* lines 159-168 and 124-128: from the call of the handler to the first
\* call of the LLM
Entry(q, pool, payload) ==
    LET p == [q EXCEPT !.payload = payload]
        transcript == Strip(payload)
    IN  IF pool = "None"
        THEN Fail(p, 500, Detail("Database pool not initialized.", NoError))
        ELSE IF Falsy(transcript)
        THEN Fail(p, 422, Detail("Transcript cannot be empty.", NoError))
        ELSE IF Falsy(Strip(transcript))
        THEN Fail(p, 422, Detail("Transcript cannot be empty", NoError))
        ELSE [p EXCEPT !.transcript = transcript, !.pc = "llm"]

AnalyzeCall(r, payload) ==
    /\ Serving
    /\ req[r].pc = "new"
    /\ req' = [req EXCEPT ![r] = Entry(req[r], db_pool, payload)]
    /\ UNCHANGED <<lifeVars, health>>
    /\ UNCHANGED storeVars

\* lines 131-150: one turn of the retry loop, the LLM answering with res
Attempt(q, res) ==
    LET logged == [q EXCEPT !.calls = @ + 1,
                            !.lastExc = IF AttemptSucceeds(res)
                                        THEN NoError ELSE AttemptError(res)]
    IN  IF AttemptSucceeds(res)
        THEN [logged EXCEPT !.insights = AttemptValue(res), !.pc = "acquire",
                            !.attempt = 0, !.last_error = NoError,
                            !.llmValue = AttemptValue(res),
                            !.via = IF res.kind = "typed" THEN "isinstance"
                                    ELSE "model_validate"]
        ELSE LET err == LastError(q.last_error, AttemptError(res))
                 failed == [logged EXCEPT !.last_error = err,
                                          !.attempt = q.attempt + 1]
             IN  IF q.attempt + 1 < Attempts
                 THEN failed
                 ELSE Fail(failed, 500, Detail("LLM generation failed: ", err))

\* a transcript kept in one module-level variable for all the requests
ContentsShared(r) ==
    LET others == {o \in Reqs \ {r} : req[o].transcript # <<>>}
    IN  IF others = {} THEN req[r].transcript
        ELSE req[CHOOSE o \in others : TRUE].transcript

\* line 135: contents=transcript, the parameter of this call of
\* generate_insights
Contents(r) == req[r].transcript

GenerateContent(r, res) ==
    /\ req[r].pc = "llm"
    /\ req' = [req EXCEPT ![r] = [Attempt(req[r], res) EXCEPT !.sent = Contents(r)]]
    /\ UNCHANGED <<lifeVars, health>>
    /\ UNCHANGED storeVars

\* line 171: db_pool.acquire(); an exception of it leaves the handler
Acquire(r, ok) ==
    /\ req[r].pc = "acquire"
    /\ ok => poolOpen
    /\ LET q == [req[r] EXCEPT !.acquires = @ + 1]
       IN  req' = [req EXCEPT ![r] =
                     IF ok
                     THEN [q EXCEPT !.pc = "insert", !.conn = TRUE]
                     ELSE Fail([q EXCEPT !.failedAt = "acquire"], 500,
                               InternalServerError)]
    /\ UNCHANGED <<lifeVars, health>>
    /\ UNCHANGED storeVars

\* the exception of the INSERT caught and dropped
InsertErrorSwallowed(q) ==
    [q EXCEPT !.pc = "release", !.inserts = @ + 1, !.failedAt = "insert"]

\* lines 173-204, the INSERT raised: the exception is on its way out of the
\* `async with` block
InsertError(q) ==
    [q EXCEPT !.pc = "release", !.exc = TRUE, !.inserts = @ + 1,
              !.failedAt = "insert"]

\* RETURNING id
Returning(row) == row.id

\* lines 173-205: conn.fetchval(INSERT ... RETURNING id)
Insert(r, ok, idUsed) ==
    /\ req[r].pc = "insert"
    /\ ok => tableExists /\ idUsed
    /\ IF ok
       THEN LET row == InsertedRow(nextId, req[r].transcript, req[r].insights)
            IN  /\ rows' = InsertInto(rows, row)
                /\ req' = [req EXCEPT ![r] =
                             [@ EXCEPT !.pc = "release",
                                       !.record_id = Returning(row),
                                       !.inserts = req[r].inserts + 1,
                                       !.rowIx = Len(rows) + 1]]
       ELSE /\ rows' = rows
            /\ req' = [req EXCEPT ![r] = InsertError(@)]
    /\ nextId' = IF idUsed THEN nextId + 1 ELSE nextId
    /\ UNCHANGED <<tableExists, rows0>>
    /\ UNCHANGED <<lifeVars, health>>

\* a release written after the INSERT, not in a finally: an exception of
\* the INSERT goes past it
ConnectionLeftOnError(q) == IF q.exc THEN q ELSE [q EXCEPT !.conn = FALSE]

\* line 171: the exit of `async with db_pool.acquire()` takes the connection
\* from the request, with or without a pending exception
ConnectionLeft(q) == [q EXCEPT !.conn = FALSE]

\* lines 171 and 205-207: the end of the `async with` block gives the
\* connection back; then the pending exception, or an exception of the
\* release, leaves the handler, or else the response is returned
Release(r, ok) ==
    /\ req[r].pc = "release"
    /\ LET q == ConnectionLeft(req[r])
       IN  req' = [req EXCEPT ![r] =
                     IF ok /\ ~q.exc
                     THEN [q EXCEPT !.pc = "done", !.status = 200,
                                    !.response = AnalyzeCallResponse(q.record_id,
                                                                     q.insights)]
                     ELSE Fail([q EXCEPT !.failedAt =
                                             IF q.exc THEN q.failedAt
                                             ELSE "release"],
                               500, InternalServerError)]
    /\ UNCHANGED <<lifeVars, health>>
    /\ UNCHANGED storeVars

\* a healthcheck that looks at the store handle first
HealthcheckProbesPool(pool, poolIsOpen, llmIsOpen) ==
    IF pool = "None" \/ ~poolIsOpen
    THEN [status_code |-> 503, status |-> "unavailable", timestamp |-> "utc now"]
    ELSE [status_code |-> 200, status |-> "ok", timestamp |-> "utc now"]

\* lines 152-155: the body of GET /, whatever the handles are
HealthcheckResponse(pool, poolIsOpen, llmIsOpen) ==
    [status_code |-> 200, status |-> "ok", timestamp |-> "utc now"]

\* GET /: the handler has no precondition and no await
Healthcheck ==
    /\ health' = HealthcheckResponse(db_pool, poolOpen, llmOpen)
    /\ UNCHANGED lifeVars
    /\ UNCHANGED storeVars
    /\ UNCHANGED req

Next ==
    \/ Healthcheck
    \/ \E ok \in BOOLEAN : CreatePool(ok)
    \/ \E ok \in BOOLEAN : EnsureSchema(ok)
    \/ \E ok \in BOOLEAN : ShutdownStep(ok)
    \/ \E r \in Reqs, payload \in TranscriptInput : AnalyzeCall(r, payload)
    \/ \E r \in Reqs, res \in LLMResults : GenerateContent(r, res)
    \/ \E r \in Reqs, ok \in BOOLEAN : Acquire(r, ok)
    \/ \E r \in Reqs, ok \in BOOLEAN, idUsed \in BOOLEAN : Insert(r, ok, idUsed)
    \/ \E r \in Reqs, ok \in BOOLEAN : Release(r, ok)

Spec == Init /\ [][Next]_vars

(***************************************************************************)
(* Properties.                                                             *)
(***************************************************************************)
Done(r) == req[r].pc = "done"

\* the request made no call to the store
NoStoreCall(r) == req[r].acquires = 0 /\ req[r].inserts = 0 /\ req[r].rowIx = 0

\* the payload of the request is empty or whitespace only
Blank(r) == Done(r) /\ \A i \in 1..Len(req[r].payload) : req[r].payload[i] = " "

\* C1, as stated: every request whose transcript is empty or only whitespace
\* is answered 422, with no call to the LLM and no call to the store.
C1_BlankAlways422 ==
    \A r \in Reqs :
        Blank(r) => req[r].status = 422 /\ req[r].calls = 0 /\ NoStoreCall(r)

\* C1, amended: a request whose transcript is empty or only whitespace is
\* answered 422 when the store handle db_pool is set and 500 when it is
\* unset; in both cases there is no call to the LLM and none to the store.
C1_BlankRejected ==
    \A r \in Reqs :
        Blank(r) =>
            /\ req[r].status = IF db_pool = "None" THEN 500 ELSE 422
            /\ req[r].calls = 0
            /\ NoStoreCall(r)
            /\ req[r].response = Null

C1_Witness ==
    \E r \in Reqs :
        /\ Blank(r)
        /\ req[r].payload = <<" ">>
        /\ req[r].status = 422

\* the third call of the LLM succeeded, after two failed ones
ThirdSucceeded(r) == req[r].calls = 3 /\ req[r].lastExc = NoError

\* C2, as stated: at most 3 calls of the LLM per request, and when the third
\* one succeeds the request is answered 200 with the result of that call.
C2_ThirdSuccessAlways200 ==
    \A r \in Reqs :
        /\ req[r].calls <= 3
        /\ Done(r) /\ ThirdSucceeded(r) =>
              /\ req[r].status = 200
              /\ req[r].response # Null
              /\ req[r].response.insights = req[r].llmValue

\* the LLM is called one call at a time, after a failure or as the first
\* call, and never again after a success
CallsInTurn ==
    \A r \in Reqs :
        req'[r].calls # req[r].calls =>
            /\ req'[r].calls = req[r].calls + 1
            /\ req[r].pc = "llm"
            /\ req[r].calls > 0 => req[r].lastExc # NoError

\* C2, amended: at most 3 calls of the LLM per request, each after the
\* failure of the one before, none after a success; when the third call
\* succeeds generate_insights returns its result, and the request is
\* answered 200 with that result unless a call to the store (acquire,
\* INSERT, release) raises, in which case it is answered 500.
C2_RetryBound ==
    /\ [](\A r \in Reqs :
            /\ req[r].calls <= 3
            /\ req[r].pc = "llm" /\ req[r].calls > 0 => req[r].lastExc # NoError
            /\ ThirdSucceeded(r) =>
                  /\ req[r].insights = req[r].llmValue
                  /\ req[r].insights # Null
                  /\ req[r].pc # "llm"
            /\ Done(r) /\ ThirdSucceeded(r) =>
                  IF req[r].failedAt = "none"
                  THEN /\ req[r].status = 200
                       /\ req[r].response # Null
                       /\ req[r].response.insights = req[r].llmValue
                  ELSE /\ req[r].status = 500
                       /\ req[r].response = Null)
    /\ [][CallsInTurn]_vars

C2_Witness ==
    \E r \in Reqs :
        /\ Done(r)
        /\ ThirdSucceeded(r)
        /\ req[r].status = 200
        /\ req[r].response.insights = req[r].llmValue

\* all the calls of the LLM failed
AllFailed(r) == req[r].calls = 3 /\ req[r].lastExc # NoError

\* C3: when all 3 calls of the LLM fail the request is answered 500, the
\* detail carries the error of the third call, the store is not called and
\* no insight is returned.
C3_AllAttemptsFail ==
    \A r \in Reqs :
        AllFailed(r) =>
            /\ Done(r)
            /\ req[r].status = 500
            /\ req[r].detail = Detail("LLM generation failed: ", req[r].lastExc)
            /\ NoStoreCall(r)
            /\ req[r].insights = Null
            /\ req[r].response = Null

C3_Witness ==
    \E r \in Reqs :
        /\ AllFailed(r)
        /\ req[r].detail = Detail("LLM generation failed: ", "ValidationError")

\* C4: a request answered 200 returns as record_id the id of the row that
\* its INSERT created, and as insights the value that the extraction
\* returned, every field of it unchanged.
C4_ResponseEchoes ==
    \A r \in Reqs :
        req[r].status = 200 =>
            /\ req[r].failedAt = "none"
            /\ req[r].rowIx \in 1..Len(rows)
            /\ req[r].response.record_id = rows[req[r].rowIx].id
            /\ DOMAIN req[r].response.insights = CallInsightFields
            /\ \A f \in CallInsightFields :
                  req[r].response.insights[f] = req[r].llmValue[f]

C4_Witness ==
    \E r \in Reqs :
        /\ req[r].status = 200
        /\ req[r].response.record_id = 3
        /\ req[r].response.insights.summary = "s2"
        /\ req[r].response.insights.non_payment_reason = "None"

\* the INSERT of the request raised
InsertFailed(r) == req[r].failedAt = "insert"

\* C5: when the INSERT fails after a successful extraction the request is
\* answered 500, no AnalyzeCallResponse is built, and the handler calls
\* neither the LLM nor the INSERT again.
C5_InsertFailure ==
    /\ [](\A r \in Reqs :
            InsertFailed(r) =>
                /\ req[r].insights # Null
                /\ req[r].inserts = 1
                /\ req[r].rowIx = 0
                /\ req[r].response = Null
                /\ req[r].status \in {0, 500}
                /\ Done(r) => req[r].status = 500)
    /\ [][\A r \in Reqs :
            InsertFailed(r) =>
                /\ req'[r].calls = req[r].calls
                /\ req'[r].inserts = req[r].inserts
                /\ req'[r].acquires = req[r].acquires]_vars

C5_Witness ==
    \E r \in Reqs : InsertFailed(r) /\ Done(r) /\ req[r].status = 500

\* the requests that have a row in the table
Inserted == {r \in Reqs : req[r].rowIx # 0}

\* no request is under way
Quiet == \A r \in Reqs : ~InFlight(r)

\* the rows of the start of the process are still there, unchanged
OldRowsKept == Len(rows) >= Len(rows0) /\ SubSeq(rows, 1, Len(rows0)) = rows0

\* C6, as stated: once the requests have ended, the table holds one new row
\* per request answered 200 and none for a request that ended in an error;
\* a request inserts at most once; no row is updated or deleted.
C6_RowsMatch200 ==
    /\ \A r \in Reqs : req[r].inserts <= 1
    /\ OldRowsKept
    /\ Quiet =>
          /\ Len(rows) = Len(rows0) + Cardinality({r \in Reqs : req[r].status = 200})
          /\ \A r \in Reqs : req[r].status # 200 => req[r].rowIx = 0

\* INSERT is the only change of the table
AppendOnly == Len(rows') >= Len(rows) /\ SubSeq(rows', 1, Len(rows)) = rows

\* C6, amended: the table holds one new row per request answered 200; a
\* request that ended in an error has no row, except that a request whose
\* INSERT completed and whose release of the connection then raised is
\* answered 500 and keeps its row; a request inserts at most once; no row
\* is updated or deleted.
C6_RowsPerRequest ==
    /\ [](/\ OldRowsKept
          /\ Len(rows) = Len(rows0) + Cardinality(Inserted)
          /\ \A r \in Reqs :
                /\ req[r].inserts <= 1
                /\ req[r].status = 200 => r \in Inserted
                /\ r \in Inserted =>
                      /\ req[r].rowIx \in (Len(rows0) + 1)..Len(rows)
                      /\ rows[req[r].rowIx].id = req[r].record_id
                      /\ \A o \in Inserted \ {r} : req[o].rowIx # req[r].rowIx
                /\ Done(r) /\ req[r].status # 200 /\ r \in Inserted =>
                      req[r].failedAt = "release"
                /\ req[r].failedAt = "release" => r \in Inserted)
    /\ [][AppendOnly]_vars

C6_Witness ==
    /\ Quiet
    /\ Len(rows0) = 1
    /\ Len(rows) = 3
    /\ \A r \in Reqs : req[r].status = 200

\* C7, as stated: in every shutdown the release of the LLM client comes
\* before the close of the database pool.
C7_LLMClientFirst ==
    \A i \in 1..Len(shutdownLog) :
        shutdownLog[i] = "db_pool" =>
            \E j \in 1..(i - 1) : shutdownLog[j] = "genai_client_aio"

\* C7, amended: in every shutdown the close of the database pool comes
\* first, and the release of the LLM client after it.
C7_PoolFirst ==
    /\ Len(shutdownLog) <= 2
    /\ \A i \in 1..Len(shutdownLog) :
          shutdownLog[i] = "genai_client_aio" =>
              \E j \in 1..(i - 1) : shutdownLog[j] = "db_pool"
    /\ ~llmOpen => ~poolOpen /\ shutdownLog = <<"db_pool", "genai_client_aio">>

C7_Witness ==
    /\ phase = "stopped"
    /\ shutdownLog = <<"db_pool", "genai_client_aio">>
    /\ ~poolOpen
    /\ ~llmOpen

\* the shutdown code of lifespan() has been left
ShutdownEnded == phase \in {"stopped", "shutdown_failed"}

\* C8: in every shutdown both releases are attempted, each one also when
\* the other one raises.
C8_BothAttempted ==
    ShutdownEnded =>
        /\ \E i \in 1..Len(shutdownLog) : shutdownLog[i] = "db_pool"
        /\ \E i \in 1..Len(shutdownLog) : shutdownLog[i] = "genai_client_aio"

\* the constraints of the spec on the values of a CallInsight
InRange(rating, ss, se) ==
    /\ rating \in 1..5
    /\ ss \in Sentiments
    /\ se \in Sentiments

\* C9: every CallInsight returned by the extraction, every row and every
\* response has a rating in 1..5 and its two sentiments among negative,
\* neutral, positive.
C9_InsightsInRange ==
    /\ \A r \in Reqs :
          req[r].insights # Null =>
              InRange(req[r].insights.agent_performance_rating,
                      req[r].insights.sentiment_start,
                      req[r].insights.sentiment_end)
    /\ \A i \in 1..Len(rows) :
          InRange(rows[i].agent_performance_rating, rows[i].sentiment_start,
                  rows[i].sentiment_end)

\* the request has gone past the check of db_pool of lines 159-161
PastPoolCheck(r) ==
    /\ req[r].pc # "new"
    /\ req[r].detail.msg # "Database pool not initialized."

\* C10: CREATE TABLE IF NOT EXISTS runs once, at startup, and has completed
\* before any request goes past the check of db_pool or runs its INSERT.
C10_SchemaBeforeRequests ==
    /\ schemaRuns <= 1
    /\ schemaRuns = 1 <=> SchemaReady
    /\ \A r \in Reqs :
          PastPoolCheck(r) \/ req[r].inserts > 0 =>
              /\ SchemaReady
              /\ tableExists

C10_Witness ==
    \E r \in Reqs :
        /\ PastPoolCheck(r)
        /\ req[r].inserts = 1
        /\ schemaRuns = 1
        /\ rows0 = <<>>

\* the store, as the schema statement sees it and leaves it
StoreNow == [exists |-> tableExists, rows |-> rows, nextId |-> nextId]

StoreAfter(st) ==
    LET done == CreateTableIfNotExists(st.exists, st.rows, st.nextId)
    IN  [exists |-> done.exists, rows |-> done.rows, nextId |-> done.nextId]

\* C11: the schema statement run against a store that has the table raises
\* no error and leaves the table and its rows as they are, so that two runs
\* in a row leave the store as one run does.
C11_SchemaIdempotent ==
    /\ [](/\ tableExists =>
                /\ ~CreateTableIfNotExists(tableExists, rows, nextId).error
                /\ StoreAfter(StoreNow) = StoreNow
          /\ StoreAfter(StoreAfter(StoreNow)) = StoreAfter(StoreNow)
          /\ ~CreateTableIfNotExists(TRUE, StoreAfter(StoreNow).rows,
                                     StoreAfter(StoreNow).nextId).error)
    /\ [][schemaRuns' # schemaRuns /\ tableExists =>
            /\ tableExists'
            /\ rows' = rows
            /\ nextId' = nextId]_vars

C11_Witness ==
    /\ schemaRuns = 1
    /\ rows0 = OldRows
    /\ Len(rows) = 2
    /\ rows[1] = OldRows[1]

\* C12: GET / answers 200 with status ok in every state of the process,
\* calls neither the LLM nor the store, and changes no state.
C12_HealthcheckAlwaysOk ==
    /\ [](/\ ENABLED Healthcheck
          /\ health # Null => health.status_code = 200 /\ health.status = "ok")
    /\ [][health' # health =>
            /\ health'.status_code = 200
            /\ health'.status = "ok"
            /\ UNCHANGED <<lifeVars, storeVars, req>>]_vars

C12_Witness ==
    /\ health # Null
    /\ health.status_code = 200
    /\ db_pool = "pool"
    /\ ~poolOpen
    /\ ~llmOpen

\* the step that takes request r on without an error
Proceeds(r) ==
    \/ \E res \in LLMResults : AttemptSucceeds(res) /\ GenerateContent(r, res)
    \/ Acquire(r, TRUE)
    \/ Insert(r, TRUE, TRUE)
    \/ Release(r, TRUE)

PoolNotInitialized == Detail("Database pool not initialized.", NoError)

\* C14: with the store handle unset every request to POST /analyze_call,
\* an empty transcript included, is answered 500 before its transcript is
\* trimmed or looked at, with no call to the LLM and none to the store.
C14_HandleCheckedFirst ==
    /\ [](\A r \in Reqs :
            db_pool = "None" /\ req[r].pc # "new" =>
                /\ Done(r)
                /\ req[r].status = 500
                /\ req[r].detail = PoolNotInitialized
                /\ req[r].transcript = <<>>
                /\ req[r].calls = 0
                /\ NoStoreCall(r)
                /\ req[r].response = Null)
    /\ [][\A r \in Reqs :
            db_pool = "None" /\ req'[r] # req[r] =>
                /\ req[r].pc = "new"
                /\ req'[r] = [req[r] EXCEPT !.pc = "done", !.status = 500,
                                            !.detail = PoolNotInitialized,
                                            !.payload = req'[r].payload]]_vars

C14_Witness ==
    /\ db_pool = "None"
    /\ req["r1"].payload = <<" ">>
    /\ req["r1"].status = 500
    /\ req["r1"].detail = PoolNotInitialized
    /\ req["r2"].payload = <<" ", "a">>
    /\ req["r2"].status = 500
    /\ req["r2"].transcript = <<>>

\* generate_insights has returned a CallInsight to the handler
Returned(r) == req[r].insights # Null

\* C15, as stated: every value that generate_insights returns has been
\* validated against CallInsight by it, also one that came already typed.
C15_AlwaysValidated ==
    \A r \in Reqs : Returned(r) => req[r].via = "model_validate"

\* C15, amended: an output that is not a CallInsight instance is validated
\* with CallInsight.model_validate before it is returned, and when it is
\* malformed, missing or not of the shape the attempt counts as failed and
\* is retried within the 3 attempts; an output that comes as a CallInsight
\* instance is returned as it is, without a validation by generate_insights.
C15_ValidatedUnlessTyped ==
    \A r \in Reqs :
        /\ req[r].calls <= 3
        /\ Returned(r) <=> req[r].via # "none"
        /\ req[r].via = "isinstance" => req[r].insights \in TypedParsed
        /\ req[r].via = "model_validate" =>
              /\ ValidatesAsCallInsight(req[r].insights)
              /\ DOMAIN req[r].insights = CallInsightFields
              /\ req[r].insights \in {ModelValidate(o) : o \in RawValid}
        /\ req[r].lastExc # NoError =>
              /\ ~Returned(r)
              /\ req[r].attempt = req[r].calls
              /\ req[r].pc = "llm" \/ (Done(r) /\ req[r].calls = 3)

C15_Witness ==
    /\ req["r1"].via = "isinstance"
    /\ req["r1"].calls = 1
    /\ req["r2"].via = "model_validate"
    /\ req["r2"].calls = 3
    /\ req["r2"].insights.non_payment_reason = "None"

\* C16: the row of a successful request holds the trimmed transcript, the
\* string that went to the LLM, and in the column of each CallInsight field
\* the value of that field in the insight that the extraction returned.
C16_RowMirrorsInsight ==
    \A r \in Reqs :
        req[r].rowIx # 0 =>
            LET row == rows[req[r].rowIx]
            IN  /\ DOMAIN row = CallInsightFields \cup {"id", "transcript"}
                /\ row.transcript = Strip(req[r].payload)
                /\ row.transcript = req[r].sent
                /\ \A f \in CallInsightFields : row[f] = req[r].llmValue[f]

C16_Witness ==
    \E r \in Reqs :
        /\ req[r].status = 200
        /\ req[r].payload = <<" ", "a">>
        /\ rows[req[r].rowIx].transcript = <<"a">>
        /\ rows[req[r].rowIx].sentiment_start = "neutral"
        /\ rows[req[r].rowIx].sentiment_end = "positive"

\* the requests that hold a connection of the pool
Holders == {r \in Reqs : req[r].conn}

\* C17: a request holds no pool connection while it waits for the LLM; it
\* takes one only after the extraction has succeeded, keeps it for its one
\* INSERT, and gives it back on every exit of the INSERT, so that requests
\* waiting for the LLM take no connection from the pool.
C17_NoConnectionDuringLLM ==
    /\ [](/\ \A r \in Reqs :
                /\ req[r].pc \in {"new", "llm", "acquire", "done"} => ~req[r].conn
                /\ req[r].conn =>
                      /\ Returned(r)
                      /\ req[r].acquires = 1
                      /\ req[r].inserts <= 1
                      /\ req[r].pc = "insert" <=> req[r].inserts = 0
          /\ Cardinality(Holders)
                <= Cardinality({r \in Reqs : req[r].pc \in {"insert", "release"}}))
    /\ [][\A r \in Reqs :
            /\ ~req[r].conn /\ req'[r].conn =>
                  req[r].pc = "acquire" /\ Returned(r) /\ req'[r].calls = req[r].calls
            /\ req[r].conn => req'[r].calls = req[r].calls]_vars

C17_Witness ==
    /\ req["r1"].pc = "llm"
    /\ req["r1"].calls = 2
    /\ ~req["r1"].conn
    /\ Done("r2")
    /\ req["r2"].failedAt = "insert"
    /\ ~req["r2"].conn
    /\ Holders = {}

\* lifespan() has gone past line 83
PoolCreated ==
    phase \in {"pool_created", "serving", "shutdown", "stopped", "shutdown_failed"}

\* C18: the store handle changes once in the life of a process, from unset
\* to set at startup, and is not unset again, also not when the shutdown
\* has closed the pool; a request is rejected for an unset handle only
\* while startup has not set it; a set handle can belong to a closed pool.
C18_HandleSetOnce ==
    /\ [](/\ PoolCreated => db_pool = "pool"
          /\ db_pool = "pool" => lifespanOn /\ phase # "created"
          /\ poolOpen => db_pool = "pool")
    /\ [][/\ db_pool # "None" => db_pool' = db_pool
          /\ db_pool' # db_pool => phase = "created" /\ phase' = "pool_created"
          /\ \A r \in Reqs :
                req'[r].detail = PoolNotInitialized /\ req[r].detail # PoolNotInitialized
                    => db_pool = "None" /\ ~PoolCreated]_vars

C18_Witness ==
    /\ db_pool = "pool"
    /\ ~poolOpen
    /\ phase = "stopped"
    /\ \E r \in Reqs : req[r].status = 200

====
